---------------------------- MODULE Spec2Model ----------------------------
(***************************************************************************)
(* A model of the Kademlia routing substrate of peernet:                   *)
(*   NodeId       (src/src/kademlia/nodeId.hpp)                            *)
(*   PeerInfo     (src/src/kademlia/peerInfo.hpp)                          *)
(*   KBucket      (src/src/kademlia/kBucket.hpp)                           *)
(*   RoutingTable (src/src/kademlia/routingTable.hpp)                      *)
(*   DHT          (src/src/kademlia/dht.hpp)                               *)
(*   KademliaRPC  (src/src/kademlia/rpcMessage.hpp)                        *)
(*                                                                         *)
(* Identifiers are modelled at a reduced width: NODE_ID_LEN bytes of       *)
(* ByteBits bits each (20 bytes of 8 bits in the source), so the table has *)
(* NODE_ID_LEN * ByteBits buckets (160 in the source).  The default bucket *)
(* capacity is DefaultMaxSize (20 in the source).  All byte and bit        *)
(* formulas are those of the source, with 8 replaced by ByteBits.          *)
(***************************************************************************)
EXTENDS Integers, Sequences, FiniteSets, TLC

(***************************************************************************)
(* Sizes.  NODE_ID_LEN, ByteBits and DefaultMaxSize stand for 20, 8 and 20 *)
(* of the source; MaxTime bounds the clock.                                *)
(***************************************************************************)
NODE_ID_LEN == 2
ByteBits == 2
DefaultMaxSize == 2
MaxTime == 1

\* The most completion handlers queued at a time.
MaxProbes == 2

\* The application threads that call DHT::addPeer.
Threads == {"t1", "t2"}

(***************************************************************************)
(* NodeId: an array of NODE_ID_LEN bytes, most significant byte first.     *)
(***************************************************************************)
RECURSIVE Pow2(_)
Pow2(n) == IF n = 0 THEN 1 ELSE 2 * Pow2(n - 1)

ByteValues == 0..(Pow2(ByteBits) - 1)

NodeIds == [1..NODE_ID_LEN -> ByteValues]

zero == [i \in 1..NODE_ID_LEN |-> 0]

\* std::bit_xor<uint8_t> on two bytes, bit by bit.
RECURSIVE bit_xor(_, _, _)
bit_xor(a, b, n) ==
    IF n = 0 THEN 0
    ELSE (((a % 2) + (b % 2)) % 2) + (2 * bit_xor(a \div 2, b \div 2, n - 1))

\* std::countl_zero on a byte of ByteBits bits.
RECURSIVE bit_width(_)
bit_width(x) == IF x = 0 THEN 0 ELSE 1 + bit_width(x \div 2)

countl_zero(x) == ByteBits - bit_width(x)

distanceTo(a, b) == [i \in 1..NODE_ID_LEN |-> bit_xor(a[i], b[i], ByteBits)]

\* operator<=> on std::array: lexicographic on the bytes (an unsigned
\* big-endian comparison).
NodeIdLess(a, b) ==
    \E i \in 1..NODE_ID_LEN :
        /\ a[i] < b[i]
        /\ \A j \in 1..(i - 1) : a[j] = b[j]

\* logDistance counting the bytes from the most significant end.
logDistance_byteIdx(a, b) ==
    LET xorDistance == distanceTo(a, b)
        nonZero == {i \in 1..NODE_ID_LEN : xorDistance[i] # 0}
    IN  IF nonZero = {} THEN 0
        ELSE LET it == CHOOSE i \in nonZero : \A j \in nonZero : i <= j
                 byteIdx == it - 1
             IN  byteIdx * ByteBits
                     + ((ByteBits - 1) - countl_zero(xorDistance[it]))

logDistance(a, b) ==
    LET xorDistance == distanceTo(a, b)
        nonZero == {i \in 1..NODE_ID_LEN : xorDistance[i] # 0}
    IN  IF nonZero = {} THEN 0
        ELSE LET it == CHOOSE i \in nonZero : \A j \in nonZero : i <= j
                 byteIdx == it - 1
             IN  (NODE_ID_LEN - byteIdx - 1) * ByteBits
                     + ((ByteBits - 1) - countl_zero(xorDistance[it]))

\* The identifier whose big-endian value is v.
RECURSIVE ByteAt(_, _)
ByteAt(v, fromRight) ==
    IF fromRight = 0 THEN v % Pow2(ByteBits)
    ELSE ByteAt(v \div Pow2(ByteBits), fromRight - 1)

NodeIdOf(v) == [i \in 1..NODE_ID_LEN |-> ByteAt(v, NODE_ID_LEN - i)]

NumBuckets == NODE_ID_LEN * ByteBits

\* An identifier read as an unsigned big-endian number.
RECURSIVE ValuePrefix(_, _)
ValuePrefix(id, n) ==
    IF n = 0 THEN 0 ELSE ValuePrefix(id, n - 1) * Pow2(ByteBits) + id[n]

Value(id) == ValuePrefix(id, NODE_ID_LEN)

(***************************************************************************)
(* PeerInfo.                                                               *)
(***************************************************************************)
PeerInfo(ip, port, lastSeen, nodeId, isExpired) ==
    [ipAddress |-> ip, port |-> port, lastSeen |-> lastSeen,
     nodeId |-> nodeId, isExpired |-> isExpired]

\* PeerInfo{}: every member value-initialised.
DefaultPeer == PeerInfo("", 0, 0, zero, FALSE)

\* isValid without the port test.
isValid_noPort(peer) ==
    /\ peer.ipAddress # ""
    /\ peer.nodeId # zero

isValid(peer) ==
    /\ peer.ipAddress # ""
    /\ peer.port > 0
    /\ peer.nodeId # zero

(***************************************************************************)
(* The inputs of the model.                                                *)
(***************************************************************************)
\* The node's own identifier (the selfNodeId given to the DHT constructor).
SelfId == NodeIdOf(2)

\* Identifiers of the peers offered to addPeer: the node's own identifier
\* and DefaultMaxSize + 1 identifiers that share the farthest bucket.
ArgIds ==
    {SelfId} \cup {NodeIdOf(Pow2(NumBuckets - 1) + i) : i \in 0..DefaultMaxSize}

ArgAddress == "192.168.1.1"
ArgPort == 8080

\* The lastSeen and isExpired an argument carries: seen at the epoch and
\* marked expired, or seen at the latest instant and not expired.
ArgStamps == {<<0, TRUE>>, <<MaxTime, FALSE>>}

\* Valid peers.
ValidArgs ==
    {PeerInfo(ArgAddress, ArgPort, st[1], id, st[2]) :
        st \in ArgStamps, id \in ArgIds}

\* Invalid peers: PeerInfo{}, and each way of being invalid alone.
InvalidArgs ==
    {DefaultPeer,
     PeerInfo("", ArgPort, 0, NodeIdOf(Pow2(NumBuckets - 1)), FALSE),
     PeerInfo(ArgAddress, 0, 0, NodeIdOf(Pow2(NumBuckets - 1)), FALSE),
     PeerInfo(ArgAddress, ArgPort, 0, zero, FALSE)}

PeerArgs == ValidArgs \cup InvalidArgs

\* DHT::Config values the DHT is constructed with: a table limited to one
\* peer, and a table that can fill a bucket, with k below the default
\* bucket size.
Configs ==
    {[staleThreshold |-> s, maxPeers |-> c[1], k |-> c[2]] :
        s \in {0, 1},
        c \in {<<1, DefaultMaxSize>>, <<DefaultMaxSize + 1, 1>>}}

(***************************************************************************)
(* State.                                                                  *)
(***************************************************************************)
VARIABLES
    m_buckets,   \* RoutingTable::m_buckets: bucket index -> KBucket::m_peers
    m_config,    \* DHT::m_config
    now,         \* std::chrono::system_clock::now()
    pc,          \* position of each thread inside DHT::addPeer
    last,        \* the operation completed by the last step, and its result
    idCalc,      \* two NodeIds and what NodeId's functions returned for them
    m_localStore,\* KademliaRPC::m_localStore: key -> value
    rx,          \* the last run of the receive handler of KademliaRPC
    sent,        \* the calls of sendMessage made by that run, or by the last
                 \* iterative operation
    crashed,     \* the process was terminated by the operating system
    m_refreshThread, \* position of DHT::m_refreshThread in backgroundRefresh
    stop_requested,  \* the stop state of m_refreshThread's stop token
    dtor,        \* position of the thread that destroys the DHT
    pending,     \* completion handlers queued on the buckets' io_contexts
    m_mutex,     \* RoutingTable::m_mutex: its exclusive and shared holders
    lookup       \* the last call of an iterative operation of KademliaRPC

\* The variables of the routing table and the DHT facade.
dhtVars == <<m_buckets, m_config, now, pc, last, m_refreshThread,
             stop_requested, dtor, pending, m_mutex>>

\* The variables of the background refresh and of the destructor.
loopVars == <<m_refreshThread, stop_requested, dtor>>

\* The variables of the RPC endpoint.
rpcVars == <<m_localStore, rx, sent, lookup>>

vars == <<m_buckets, m_config, now, pc, last, idCalc, m_localStore, rx, sent,
          crashed, m_refreshThread, stop_requested, dtor, pending, m_mutex,
          lookup>>

BucketIndices == 0..(NumBuckets - 1)

(***************************************************************************)
(* KBucket.                                                                *)
(***************************************************************************)
\* KBucket::m_maxSize.  RoutingTable builds its buckets with
\* m_buckets(160), i.e. with KBucket's default argument: the bucketSize
\* given to the RoutingTable constructor is kept in m_bucketSize and not
\* passed on.
m_maxSize(bucketSize) == DefaultMaxSize

\* std::ranges::find_if: the first position whose peer has this nodeId,
\* 0 for end().
find_if(peers, nodeId) ==
    LET hits == {i \in 1..Len(peers) : peers[i].nodeId = nodeId}
    IN  IF hits = {} THEN 0 ELSE CHOOSE i \in hits : \A j \in hits : i <= j

\* std::ranges::min_element by lastSeen: the first smallest.
min_element(peers) ==
    CHOOSE i \in 1..Len(peers) :
        /\ \A j \in 1..Len(peers) : peers[i].lastSeen <= peers[j].lastSeen
        /\ \A j \in 1..(i - 1) : peers[j].lastSeen > peers[i].lastSeen

\* KBucket::add: the new m_peers, the result, and the probe it issued
\* (position of the probed peer, the peer handed to pingPeer and the peer
\* captured by the callback).
KBucket_add(peers, maxSize, peer) ==
    IF ~isValid(peer)
    THEN [peers |-> peers, result |-> "InvalidPeer", probe |-> <<>>]
    ELSE LET it == find_if(peers, peer.nodeId)
         IN  IF it # 0
             THEN [peers |-> [peers EXCEPT ![it] = peer],
                   result |-> "Success", probe |-> <<>>]
             ELSE IF Len(peers) < maxSize
             THEN [peers |-> Append(peers, peer),
                   result |-> "Success", probe |-> <<>>]
             ELSE [peers |-> peers, result |-> "Success",
                   probe |-> <<[oldestIt |-> min_element(peers),
                                probed |-> peers[min_element(peers)],
                                peer |-> peer]>>]

\* The staleness test with > for >=.
isStale_gt(peer, clock, staleThreshold) ==
    (clock - peer.lastSeen) > staleThreshold

\* The predicate of std::erase_if in KBucket::removeStalePeers.
isStale(peer, clock, staleThreshold) ==
    (clock - peer.lastSeen) >= staleThreshold

removeStalePeers(peers, clock, staleThreshold) ==
    SelectSeq(peers, LAMBDA p : ~isStale(p, clock, staleThreshold))

\* KBucket::find: the peer in a one-element sequence, or the empty
\* sequence for std::nullopt.
KBucket_find(peers, nodeId) ==
    LET it == find_if(peers, nodeId)
    IN  IF it # 0 THEN <<peers[it]>> ELSE <<>>

(***************************************************************************)
(* RoutingTable.                                                           *)
(***************************************************************************)
\* RoutingTable::addPeer: the new buckets, the result and the probe.
RoutingTable_addPeer(buckets, bucketSize, peer) ==
    LET bucketIndex == logDistance(SelfId, peer.nodeId)
        r == KBucket_add(buckets[bucketIndex], m_maxSize(bucketSize), peer)
    IN  [buckets |-> [buckets EXCEPT ![bucketIndex] = r.peers],
         result |-> r.result,
         probe |-> [i \in 1..Len(r.probe) |->
                       [bucket |-> bucketIndex,
                        oldestIt |-> r.probe[i].oldestIt,
                        probed |-> r.probe[i].probed,
                        peer |-> r.probe[i].peer]]]

refreshBuckets(buckets, clock, staleThreshold) ==
    [b \in BucketIndices |-> removeStalePeers(buckets[b], clock, staleThreshold)]

\* The lookup in the first bucket whatever the nodeId.
findPeer_firstBucket(buckets, nodeId) ==
    KBucket_find(buckets[0], nodeId)

findPeer(buckets, nodeId) ==
    KBucket_find(buckets[logDistance(SelfId, nodeId)], nodeId)

RECURSIVE SumSizes(_, _)
SumSizes(buckets, n) ==
    IF n = 0 THEN 0 ELSE SumSizes(buckets, n - 1) + Len(buckets[n - 1])

getPeerCount(buckets) == SumSizes(buckets, NumBuckets)

Min(a, b) == IF a < b THEN a ELSE b

\* The gathering loop of findClosestPeers, from the given offset on.
RECURSIVE Gather(_, _, _, _, _)
Gather(buckets, startBucket, k, offset, closestPeers) ==
    IF ~(Len(closestPeers) < k /\ offset < NumBuckets) THEN closestPeers
    ELSE LET withRight ==
                 IF startBucket + offset < NumBuckets
                 THEN closestPeers \o buckets[startBucket + offset]
                 ELSE closestPeers
             withLeft ==
                 IF offset > 0 /\ startBucket >= offset
                 THEN withRight \o buckets[startBucket - offset]
                 ELSE withRight
         IN  Gather(buckets, startBucket, k, offset + 1, withLeft)

\* The comparator with its operands exchanged.
closer_swapped(a, b, target) ==
    NodeIdLess(distanceTo(b.nodeId, target), distanceTo(a.nodeId, target))

\* The comparator given to std::ranges::partial_sort.
closer(a, b, target) ==
    NodeIdLess(distanceTo(a.nodeId, target), distanceTo(b.nodeId, target))

\* std::ranges::partial_sort followed by resize: the n smallest elements
\* under the comparator, in order (selection of the first least element).
RECURSIVE partial_sort(_, _, _)
partial_sort(peers, n, target) ==
    IF n = 0 \/ Len(peers) = 0 THEN <<>>
    ELSE LET m == CHOOSE i \in 1..Len(peers) :
                      /\ \A j \in 1..Len(peers) : ~closer(peers[j], peers[i], target)
                      /\ \A j \in 1..(i - 1) : closer(peers[i], peers[j], target)
             rest == [i \in 1..(Len(peers) - 1) |->
                         IF i < m THEN peers[i] ELSE peers[i + 1]]
         IN  <<peers[m]>> \o partial_sort(rest, n - 1, target)

findClosestPeers(buckets, target, k) ==
    LET startBucket == logDistance(SelfId, target)
        closestPeers == Gather(buckets, startBucket, k, 0, <<>>)
    IN  partial_sort(closestPeers, Min(k, Len(closestPeers)), target)

(***************************************************************************)
(* DHT.                                                                    *)
(***************************************************************************)
\* The limit test with > for >=.
limitReached_gt(count, maxPeers) == count > maxPeers

\* The test of DHT::addPeer's first statement.
limitReached(count, maxPeers) == count >= maxPeers

\* The stamping without the assignment to lastSeen.
stamp_keepLastSeen(peer, clock) == [peer EXCEPT !.isExpired = FALSE]

\* The stamping of DHT::addPeer.
stamp(peer, clock) == [peer EXCEPT !.lastSeen = clock, !.isExpired = FALSE]

Done(op, peer, result, count) ==
    [op |-> op, peer |-> peer, result |-> result, count |-> count]

\* No call of a NodeId function has been made.
NoCalc == [a |-> zero, b |-> zero, called |-> FALSE, logDistance |-> 0]

\* The DHT after its constructor, with one of the given configurations.
DHT_DHT(configs) ==
    /\ m_buckets = [b \in BucketIndices |-> <<>>]
    /\ m_config \in configs
    /\ now = 0
    /\ pc = [t \in Threads |-> "idle"]
    /\ last = Done("construct", DefaultPeer, "void", 0)
    /\ m_refreshThread = [pc |-> "while", stopAtWake |-> FALSE, wakes |-> 0]
    /\ stop_requested = FALSE
    /\ dtor = "alive"
    /\ pending = << >>
    /\ m_mutex = [writer |-> "none", readers |-> {}]

\* The handler of async_receive_from has not run yet; the receive started
\* by the constructor of KademliaRPC is outstanding.
NoReceive ==
    [armed |-> TRUE, error |-> FALSE, ub |-> "intact", sentMsg |-> <<>>,
     datagram |-> <<>>, read |-> <<>>, msg |-> <<>>]

\* No iterative operation has been called.
NoLookup ==
    [op |-> "none", key |-> zero, value |-> "", holders |-> {},
     visited |-> {}, result |-> << >>]

\* KademliaRPC after its constructor.
KademliaRPC_KademliaRPC ==
    /\ m_localStore = << >>
    /\ rx = NoReceive
    /\ sent = << >>
    /\ lookup = NoLookup

Init ==
    /\ DHT_DHT(Configs)
    /\ idCalc = NoCalc
    /\ KademliaRPC_KademliaRPC
    /\ crashed = FALSE

\* DHT::addPeer up to the return of getPeerCount(): either the call
\* returns PeerLimitExceeded, or the thread goes on to stamp and insert.
DHT_addPeer_check(t) ==
    /\ ~crashed
    /\ pc[t] = "idle"
    /\ LET count == getPeerCount(m_buckets)
       IN  IF limitReached(count, m_config.maxPeers)
           THEN /\ \E peer \in PeerArgs :
                      last' = Done("addPeer", peer, "PeerLimitExceeded", count)
                /\ pc' = pc
           ELSE /\ last' = Done("check", DefaultPeer, "void", count)
                /\ pc' = [pc EXCEPT ![t] = "checked"]
    /\ UNCHANGED <<m_buckets, m_config, now>>
    /\ UNCHANGED <<m_mutex, idCalc, rpcVars, crashed, loopVars, pending>>

\* DHT::addPeer from the copy of the argument to the return: stamp the
\* peer and hand it to RoutingTable::addPeer (under the writer lock); the
\* clock is read in the same step as the insertion.  A
\* probe issued by KBucket::add leaves a completion handler on the bucket's
\* m_ioCtx; nothing runs that io_context, so the handler is never invoked
\* and the step has no further effect.
DHT_addPeer_insert(t, peer) ==
    /\ ~crashed
    /\ pc[t] = "checked"
    /\ LET newPeer == stamp(peer, now)
           r == RoutingTable_addPeer(m_buckets, m_config.k, newPeer)
       IN  /\ m_buckets' = r.buckets
           /\ last' = Done("addPeer", peer, r.result, getPeerCount(m_buckets))
    /\ pc' = [pc EXCEPT ![t] = "idle"]
    /\ UNCHANGED <<m_config, now>>
    /\ UNCHANGED <<m_mutex, idCalc, rpcVars, crashed, loopVars, pending>>

\* DHT::refresh; the call of refreshBuckets in DHT::backgroundRefresh has
\* the same effect on the table.
DHT_refresh ==
    /\ ~crashed
    /\ m_buckets' = refreshBuckets(m_buckets, now, m_config.staleThreshold)
    /\ last' = Done("refresh", DefaultPeer, "void", getPeerCount(m_buckets))
    /\ UNCHANGED <<m_config, now, pc>>
    /\ UNCHANGED <<m_mutex, idCalc, rpcVars, crashed, loopVars, pending>>

\* The system clock advances.
Tick ==
    /\ ~crashed
    /\ now < MaxTime
    /\ now' = now + 1
    /\ last' = Done("tick", DefaultPeer, "void", getPeerCount(m_buckets))
    /\ UNCHANGED <<m_buckets, m_config, pc>>
    /\ UNCHANGED <<m_mutex, idCalc, rpcVars, crashed, loopVars, pending>>

Next ==
    \/ \E t \in Threads : DHT_addPeer_check(t)
    \/ \E t \in Threads, peer \in PeerArgs : DHT_addPeer_insert(t, peer)
    \/ DHT_refresh
    \/ Tick

Spec == Init /\ [][Next]_vars

\* DHT::getPeer.
DHT_getPeer(nodeId) == findPeer(m_buckets, nodeId)

(***************************************************************************)
(* NodeId's functions applied to every pair of identifiers.                *)
(***************************************************************************)
InitNodeId ==
    /\ DHT_DHT({[staleThreshold |-> 1, maxPeers |-> 1, k |-> DefaultMaxSize]})
    /\ \E a \in NodeIds, b \in NodeIds :
           idCalc = [a |-> a, b |-> b, called |-> FALSE, logDistance |-> 0]
    /\ KademliaRPC_KademliaRPC
    /\ crashed = FALSE

\* a.logDistance(b).
NodeId_logDistance ==
    /\ ~idCalc.called
    /\ idCalc' = [idCalc EXCEPT !.called = TRUE,
                                !.logDistance = logDistance(idCalc.a, idCalc.b)]
    /\ UNCHANGED <<dhtVars, rpcVars, crashed>>

NextNodeId == NodeId_logDistance

SpecNodeId == InitNodeId /\ [][NextNodeId]_vars

(***************************************************************************)
(* KademliaRPC (src/src/kademlia/rpcMessage.hpp).                          *)
(***************************************************************************)
\* RPCMessage::Type, as static_cast<int> gives it.
PING == 0
STORE == 1
FIND_NODE == 2
FIND_VALUE == 3

RPCMessage(type, sender, target, value, closestNodes) ==
    [type |-> type, sender |-> sender, target |-> target, value |-> value,
     closestNodes |-> closestNodes]

HexDigits ==
    <<"0", "1", "2", "3", "4", "5", "6", "7",
      "8", "9", "a", "b", "c", "d", "e", "f">>

\* NodeId::toString: two lowercase hexadecimal digits for each byte, most
\* significant byte first.
toString(id) ==
    [i \in 1..(2 * NODE_ID_LEN) |->
        LET byte == id[(i + 1) \div 2]
        IN  HexDigits[(IF i % 2 = 1 THEN byte \div 16 ELSE byte % 16) + 1]]

HexValue(c) == CHOOSE v \in 0..15 : HexDigits[v + 1] = c

\* NodeId::fromString, which rpcMessage.hpp calls and nodeId.hpp does not
\* define: the decoding of the wire format's hexadecimal string, big-endian.
fromString(str) ==
    [i \in 1..NODE_ID_LEN |->
        (16 * HexValue(str[(2 * i) - 1])) + HexValue(str[2 * i])]

\* DHT::getSelfNodeId, which rpcMessage.hpp calls and dht.hpp does not
\* define: the identifier the DHT was constructed with.
getSelfNodeId == SelfId

\* A boost::json::object: its members, each a name and a value, in the
\* order of insertion.
contains(obj, name) == \E i \in 1..Len(obj) : obj[i][1] = name

at(obj, name) == obj[CHOOSE i \in 1..Len(obj) : obj[i][1] = name][2]

\* The array sendMessage builds for closestNodes.
nodesArray(closestNodes) ==
    [i \in 1..Len(closestNodes) |->
        <<<<"ip", closestNodes[i].ipAddress>>,
          <<"port", closestNodes[i].port>>,
          <<"nodeId", toString(closestNodes[i].nodeId)>>>>]

\* The JSON object sendMessage builds.
jsonMsg(msg) ==
    <<<<"type", msg.type>>,
      <<"sender", toString(msg.sender)>>,
      <<"target", toString(msg.target)>>>>
    \o (IF msg.value # "" THEN <<<<"value", msg.value>>>> ELSE << >>)
    \o (IF msg.closestNodes # << >>
        THEN <<<<"closestNodes", nodesArray(msg.closestNodes)>>>>
        ELSE << >>)

\* A datagram, by what boost::json::parse(...).as_object() makes of it: the
\* object in a one-element sequence, or the empty sequence for bytes that
\* are not read as an object.
Json(obj) == <<obj>>

NotJson == << >>

\* boost::json::serialize(jsonMsg) in sendMessage.
serializedMsg(msg) == Json(jsonMsg(msg))

\* The try block of the receive handler up to the call of processMessage:
\* the message in a one-element sequence, or the empty sequence when an
\* exception is thrown.
parseMessage(receivedMsg) ==
    IF receivedMsg = NotJson THEN << >>
    ELSE LET obj == receivedMsg[1]
         IN  IF ~(\A name \in {"type", "sender", "target"} : contains(obj, name))
             THEN << >>
             ELSE <<RPCMessage(
                      at(obj, "type"),
                      fromString(at(obj, "sender")),
                      fromString(at(obj, "target")),
                      IF contains(obj, "value") THEN at(obj, "value") ELSE "",
                      IF contains(obj, "closestNodes")
                      THEN LET array == at(obj, "closestNodes")
                           IN  [i \in 1..Len(array) |->
                                   [DefaultPeer EXCEPT
                                       !.ipAddress = at(array[i], "ip"),
                                       !.port = at(array[i], "port"),
                                       !.nodeId = fromString(at(array[i], "nodeId"))]]
                      ELSE << >>)>>

\* DHT::findClosestPeers with its default argument k = 0.
DHT_findClosestPeers(target) ==
    findClosestPeers(m_buckets, target, m_config.k)

respondToPing(msg) ==
    RPCMessage(PING, zero, msg.sender, "", << >>)

\* std::unordered_map::emplace for operator[] and assignment.
storeValue_emplace(localStore, msg) ==
    [key \in DOMAIN localStore \cup {msg.target} |->
        IF key \in DOMAIN localStore THEN localStore[key] ELSE msg.value]

\* m_localStore[msg.target] = msg.value.
storeValue(localStore, msg) ==
    [key \in DOMAIN localStore \cup {msg.target} |->
        IF key = msg.target THEN msg.value ELSE localStore[key]]

respondToFindNode(msg) ==
    RPCMessage(FIND_NODE, getSelfNodeId, msg.target, "",
               DHT_findClosestPeers(msg.target))

respondToFindValue(localStore, msg) ==
    LET found == msg.target \in DOMAIN localStore
    IN  RPCMessage(FIND_VALUE, getSelfNodeId, msg.target,
                   IF found THEN localStore[msg.target] ELSE "",
                   IF ~found THEN DHT_findClosestPeers(msg.target) ELSE << >>)

\* processMessage: the new local store and the responses handed to
\* sendMessage.
processMessage(localStore, msg) ==
    IF msg.type = PING
    THEN [localStore |-> localStore, responses |-> <<respondToPing(msg)>>]
    ELSE IF msg.type = STORE
    THEN [localStore |-> storeValue(localStore, msg), responses |-> << >>]
    ELSE IF msg.type = FIND_NODE
    THEN [localStore |-> localStore, responses |-> <<respondToFindNode(msg)>>]
    ELSE IF msg.type = FIND_VALUE
    THEN [localStore |-> localStore,
          responses |-> <<respondToFindValue(localStore, msg)>>]
    ELSE [localStore |-> localStore, responses |-> << >>]

\* The remote endpoint the datagrams come from.
RemoteEndpoint == <<"192.168.1.2", 9000>>

\* What the bytes of a buffer read after the end of its lifetime can be:
\* still the bytes put there, or other bytes.
Lifetimes == {"intact", "clobbered"}

\* The messages remote peers send.
RemoteIds == {NodeIdOf(Pow2(NumBuckets - 1)), NodeIdOf(1)}

RemoteNodes ==
    {<< >>,
     <<PeerInfo(ArgAddress, ArgPort, MaxTime, NodeIdOf(Pow2(NumBuckets - 1) + 1),
                FALSE)>>}

RemoteSender == NodeIdOf(Pow2(NumBuckets - 1))

\* Requests: of every type, and STORE with an empty and a non-empty value.
Requests ==
    {RPCMessage(type, RemoteSender, target, "", << >>) :
        type \in {PING, STORE, FIND_NODE, FIND_VALUE}, target \in RemoteIds}
    \cup {RPCMessage(STORE, RemoteSender, target, "v", << >>) :
              target \in RemoteIds}

\* Responses: of FIND_NODE with nodes, of FIND_VALUE with a value or with
\* nodes.
Responses ==
    {RPCMessage(type, RemoteSender, target, "", closestNodes) :
        type \in {FIND_NODE, FIND_VALUE}, target \in RemoteIds,
        closestNodes \in RemoteNodes \ {<< >>}}
    \cup {RPCMessage(FIND_VALUE, RemoteSender, target, "v", << >>) :
              target \in RemoteIds}

InMessages == Requests \cup Responses

\* Datagrams that are not messages: not JSON, and an object without type.
Malformed ==
    {NotJson,
     Json(<<<<"sender", toString(NodeIdOf(1))>>,
            <<"target", toString(NodeIdOf(1))>>>>)}

\* The completion handler of async_receive_from in startReceiving, for a
\* datagram that a remote peer produced with sendMessage from the message
\* in sentMsg (none for a malformed datagram).  The handler refers to
\* recvBuffer and senderEndpoint, locals of the call of startReceiving
\* that has returned: what it reads there is the datagram (ub = "intact"),
\* other bytes (ub = "clobbered"), or an address that is not mapped
\* (ub = "crash").  sendMessage gives async_send_to a buffer over its local
\* serializedMsg, so what is transmitted is that text or other bytes.
KademliaRPC_receive(sentMsg, datagram, error, ub, tx) ==
    /\ ~crashed
    /\ rx.armed
    /\ IF error
       THEN /\ rx' = [NoReceive EXCEPT !.error = TRUE]
            /\ sent' = << >>
            /\ UNCHANGED <<m_localStore, crashed>>
       ELSE IF ub = "crash"
       THEN /\ crashed' = TRUE
            /\ rx' = [armed |-> FALSE, error |-> FALSE, ub |-> ub,
                      sentMsg |-> sentMsg, datagram |-> <<datagram>>,
                      read |-> << >>, msg |-> << >>]
            /\ sent' = << >>
            /\ UNCHANGED m_localStore
       ELSE LET receivedMsg == IF ub = "intact" THEN datagram ELSE NotJson
                msg == parseMessage(receivedMsg)
                r == IF msg = << >>
                     THEN [localStore |-> m_localStore, responses |-> << >>]
                     ELSE processMessage(m_localStore, msg[1])
            IN  /\ rx' = [armed |-> TRUE, error |-> FALSE, ub |-> ub,
                          sentMsg |-> sentMsg, datagram |-> <<datagram>>,
                          read |-> <<receivedMsg>>, msg |-> msg]
                /\ m_localStore' = r.localStore
                /\ sent' = [i \in 1..Len(r.responses) |->
                               [msg |-> r.responses[i],
                                to |-> RemoteEndpoint,
                                tx |-> tx,
                                wire |-> IF tx = "intact"
                                         THEN serializedMsg(r.responses[i])
                                         ELSE NotJson]]
                /\ UNCHANGED crashed
    /\ UNCHANGED <<dhtVars, idCalc, lookup>>

\* A datagram arrives that a remote peer made from a message.
Receive_message ==
    \E sentMsg \in InMessages, ub \in Lifetimes \cup {"crash"} :
        \E tx \in (IF ub = "intact" THEN Lifetimes ELSE {"intact"}) :
            KademliaRPC_receive(<<sentMsg>>, serializedMsg(sentMsg), FALSE, ub, tx)

\* A datagram arrives that is not a message.
Receive_malformed ==
    \E datagram \in Malformed, ub \in Lifetimes \cup {"crash"} :
        KademliaRPC_receive(<< >>, datagram, FALSE, ub, "intact")

\* The receive completes with an error.
Receive_error ==
    KademliaRPC_receive(<< >>, NotJson, TRUE, "intact", "intact")

\* The thread and the peers of the application next to the endpoint.
RpcThreads == {"t1"}

RpcPeerArgs ==
    {PeerInfo(ArgAddress, ArgPort, 0, id, FALSE) :
        id \in {NodeIdOf(Pow2(NumBuckets - 1) + 1), NodeIdOf(1)}}

InitRpc ==
    /\ DHT_DHT({[staleThreshold |-> 1, maxPeers |-> DefaultMaxSize + 1, k |-> 1]})
    /\ idCalc = NoCalc
    /\ KademliaRPC_KademliaRPC
    /\ crashed = FALSE

NextRpc ==
    \/ \E t \in RpcThreads : DHT_addPeer_check(t)
    \/ \E t \in RpcThreads, peer \in RpcPeerArgs : DHT_addPeer_insert(t, peer)
    \/ Receive_message
    \/ Receive_malformed
    \/ Receive_error

SpecRpc == InitRpc /\ [][NextRpc]_vars

(***************************************************************************)
(* The iterative operations of KademliaRPC, next to a routing table with   *)
(* peers in several buckets.                                               *)
(***************************************************************************)
\* The endpoint of a peer, as sendMessage would be given it.
endpointOf(peer) == <<peer.ipAddress, peer.port>>

\* KademliaRPC::iterativeFindValue.  The loop body builds findMsg for
\* every peer of closestNodes not visited yet and sends nothing; the while
\* loop is left after its first round and the result is std::nullopt.
\* holders are the remote peers that have a value for the key: nothing is
\* sent to them, so they have no part in the result.
KademliaRPC_iterativeFindValue(key, holders) ==
    /\ ~crashed
    /\ LET closestNodes == DHT_findClosestPeers(key)
           visited == {closestNodes[i].nodeId : i \in 1..Len(closestNodes)}
       IN  lookup' = [op |-> "iterativeFindValue", key |-> key, value |-> "",
                      holders |-> holders, visited |-> visited,
                      result |-> << >>]
    /\ sent' = << >>
    /\ UNCHANGED <<m_localStore, rx, dhtVars, idCalc, crashed>>

\* KademliaRPC::iterativeStore.  The loop builds storeMsg for every peer
\* of closestNodes and sends nothing.
KademliaRPC_iterativeStore(key, value) ==
    /\ ~crashed
    /\ lookup' = [op |-> "iterativeStore", key |-> key, value |-> value,
                  holders |-> {}, visited |-> {}, result |-> << >>]
    /\ sent' = << >>
    /\ UNCHANGED <<m_localStore, rx, dhtVars, idCalc, crashed>>

\* Identifiers of the peers offered to addPeer, by their big-endian
\* values: two of the farthest bucket, one of the bucket below it and one
\* of the nearest bucket.
LookupIds ==
    {Pow2(NumBuckets - 1), Pow2(NumBuckets - 1) + 1, Pow2(NumBuckets - 2) + 2, 3}

\* The peers, each with a port of its own.
LookupPeerArgs ==
    {PeerInfo(ArgAddress, ArgPort + v, 0, NodeIdOf(v), FALSE) : v \in LookupIds}

\* The keys looked up and stored, and the values stored.
LookupKeys == {NodeIdOf(Pow2(NumBuckets - 2) + 3), NodeIdOf(1)}

LookupValues == {"v"}

\* The peers that have a value for a key: none, or the farthest one.
LookupHolders == {{}, {NodeIdOf(Pow2(NumBuckets - 1))}}

InitLookup ==
    /\ DHT_DHT({[staleThreshold |-> 1, maxPeers |-> DefaultMaxSize + 1,
                 k |-> DefaultMaxSize]})
    /\ idCalc = NoCalc
    /\ KademliaRPC_KademliaRPC
    /\ crashed = FALSE

NextLookup ==
    \/ \E t \in RpcThreads : DHT_addPeer_check(t)
    \/ \E t \in RpcThreads, peer \in LookupPeerArgs : DHT_addPeer_insert(t, peer)
    \/ DHT_refresh
    \/ Tick
    \/ \E key \in LookupKeys, holders \in LookupHolders :
           KademliaRPC_iterativeFindValue(key, holders)
    \/ \E key \in LookupKeys, value \in LookupValues :
           KademliaRPC_iterativeStore(key, value)

SpecLookup == InitLookup /\ [][NextLookup]_vars

(***************************************************************************)
(* The routing table when the buckets' io_contexts are run, so that the    *)
(* completion handlers of KBucket::pingPeer are invoked.                   *)
(***************************************************************************)
\* What the handlers of pingPeer pass to the callback.  When the connect
\* fails it is false.  When it succeeds, the handler starts async_wait on
\* a steady_timer that is a local of the handler: the timer is destroyed
\* when the handler returns, the wait completes with operation_aborted,
\* and the callback gets false again.
pingPeer_callback(connected) == FALSE

\* DHT::addPeer from the copy of the argument to the return, as
\* DHT_addPeer_insert, with the handler of a probe issued by KBucket::add
\* queued on the bucket's io_context.
DHT_addPeer_insert_run(t, peer) ==
    /\ ~crashed
    /\ pc[t] = "checked"
    /\ LET newPeer == stamp(peer, now)
           r == RoutingTable_addPeer(m_buckets, m_config.k, newPeer)
       IN  /\ Len(pending) + Len(r.probe) <= MaxProbes
           /\ m_buckets' = r.buckets
           /\ pending' = pending \o r.probe
           /\ last' = Done("addPeer", peer, r.result, getPeerCount(m_buckets))
    /\ pc' = [pc EXCEPT ![t] = "idle"]
    /\ UNCHANGED <<m_config, now>>
    /\ UNCHANGED <<m_mutex, idCalc, rpcVars, crashed, loopVars>>

\* The i-th queued handler runs: the callback of KBucket::add assigns the
\* captured peer through the captured iterator oldestIt when it is given
\* false.  An iterator into the vector's elements designates the same
\* position afterwards; one past its end (a refresh erased peers) designates
\* a destroyed PeerInfo, and assigning to it leaves the bucket as it is
\* (ub = "clobbered") or faults (ub = "crash").
KBucket_pingPeer_handler(i, connected, ub) ==
    /\ ~crashed
    /\ i \in 1..Len(pending)
    /\ LET p == pending[i]
           success == pingPeer_callback(connected)
           peers == m_buckets[p.bucket]
       IN  /\ IF success
              THEN UNCHANGED <<m_buckets, crashed>>
              ELSE IF p.oldestIt <= Len(peers)
              THEN /\ m_buckets' = [m_buckets EXCEPT ![p.bucket][p.oldestIt] = p.peer]
                   /\ UNCHANGED crashed
              ELSE /\ crashed' = (ub = "crash")
                   /\ UNCHANGED m_buckets
           /\ last' = Done(IF connected THEN "pingPeer_connected"
                                        ELSE "pingPeer_failed",
                           p.peer,
                           IF success THEN "true" ELSE "false",
                           getPeerCount(m_buckets))
    /\ pending' = [j \in 1..(Len(pending) - 1) |->
                      IF j < i THEN pending[j] ELSE pending[j + 1]]
    /\ UNCHANGED <<m_config, now, pc, m_mutex, idCalc, rpcVars, loopVars>>

\* The peers offered to addPeer: one more than a bucket holds, all of the
\* farthest bucket.
ProbePeerArgs ==
    {PeerInfo(ArgAddress, ArgPort, 0, id, FALSE) : id \in ArgIds \ {SelfId}}

InitProbe ==
    /\ DHT_DHT({[staleThreshold |-> 1, maxPeers |-> DefaultMaxSize + 1, k |-> 1]})
    /\ idCalc = NoCalc
    /\ KademliaRPC_KademliaRPC
    /\ crashed = FALSE

NextProbe ==
    \/ \E t \in RpcThreads : DHT_addPeer_check(t)
    \/ \E t \in RpcThreads, peer \in ProbePeerArgs : DHT_addPeer_insert_run(t, peer)
    \/ DHT_refresh
    \/ Tick
    \/ \E i \in 1..MaxProbes, connected \in BOOLEAN, ub \in {"clobbered", "crash"} :
           KBucket_pingPeer_handler(i, connected, ub)

SpecProbe == InitProbe /\ [][NextProbe]_vars

(***************************************************************************)
(* RoutingTable::m_mutex.  The operations of the routing table with the    *)
(* acquisition and the release of the lock as steps of their own, next to  *)
(* the completion handlers of the probes.                                  *)
(***************************************************************************)
\* The limit test of DHT::addPeer: getPeerCount takes the shared lock, which
\* no writer holds then, sums the sizes and releases it.
DHT_addPeer_check_shared(t) ==
    /\ m_mutex.writer = "none"
    /\ DHT_addPeer_check(t)

\* std::unique_lock lock(m_mutex) in RoutingTable::addPeer.
RoutingTable_addPeer_lock(t) ==
    /\ ~crashed
    /\ pc[t] = "checked"
    /\ m_mutex.writer = "none"
    /\ m_mutex.readers = {}
    /\ m_mutex' = [m_mutex EXCEPT !.writer = t]
    /\ pc' = [pc EXCEPT ![t] = "locked"]
    /\ UNCHANGED <<m_buckets, m_config, now, last, pending>>
    /\ UNCHANGED <<idCalc, rpcVars, crashed, loopVars>>

\* RoutingTable::addPeer after the lock: KBucket::add, with the handler of
\* a probe queued, and the release of the lock at the return.
RoutingTable_addPeer_locked(t, peer) ==
    /\ ~crashed
    /\ pc[t] = "locked"
    /\ LET newPeer == stamp(peer, now)
           r == RoutingTable_addPeer(m_buckets, m_config.k, newPeer)
       IN  /\ Len(pending) + Len(r.probe) <= MaxProbes
           /\ m_buckets' = r.buckets
           /\ pending' = pending \o r.probe
           /\ last' = Done("addPeer", peer, r.result, getPeerCount(m_buckets))
    /\ m_mutex' = [m_mutex EXCEPT !.writer = "none"]
    /\ pc' = [pc EXCEPT ![t] = "idle"]
    /\ UNCHANGED <<m_config, now>>
    /\ UNCHANGED <<idCalc, rpcVars, crashed, loopVars>>

\* std::unique_lock lock(m_mutex) in RoutingTable::refreshBuckets, called
\* on m_refreshThread.
RoutingTable_refreshBuckets_lock ==
    /\ ~crashed
    /\ m_mutex.writer = "none"
    /\ m_mutex.readers = {}
    /\ m_mutex' = [m_mutex EXCEPT !.writer = "refresh"]
    /\ UNCHANGED <<m_buckets, m_config, now, pc, last, pending>>
    /\ UNCHANGED <<idCalc, rpcVars, crashed, loopVars>>

\* RoutingTable::refreshBuckets after the lock, and the release.
RoutingTable_refreshBuckets_locked ==
    /\ ~crashed
    /\ m_mutex.writer = "refresh"
    /\ m_buckets' = refreshBuckets(m_buckets, now, m_config.staleThreshold)
    /\ last' = Done("refresh", DefaultPeer, "void", getPeerCount(m_buckets))
    /\ m_mutex' = [m_mutex EXCEPT !.writer = "none"]
    /\ UNCHANGED <<m_config, now, pc, pending>>
    /\ UNCHANGED <<idCalc, rpcVars, crashed, loopVars>>

\* std::shared_lock lock(m_mutex) in findPeer, findClosestPeers and
\* getPeerCount: the thread starts to read the buckets.
RoutingTable_read_lock(t) ==
    /\ ~crashed
    /\ pc[t] = "idle"
    /\ m_mutex.writer = "none"
    /\ m_mutex' = [m_mutex EXCEPT !.readers = @ \cup {t}]
    /\ pc' = [pc EXCEPT ![t] = "reading"]
    /\ UNCHANGED <<m_buckets, m_config, now, last, pending>>
    /\ UNCHANGED <<idCalc, rpcVars, crashed, loopVars>>

\* The reader returns and releases the shared lock.
RoutingTable_read_unlock(t) ==
    /\ ~crashed
    /\ pc[t] = "reading"
    /\ m_mutex' = [m_mutex EXCEPT !.readers = @ \ {t}]
    /\ pc' = [pc EXCEPT ![t] = "idle"]
    /\ last' = Done("read", DefaultPeer, "void", getPeerCount(m_buckets))
    /\ UNCHANGED <<m_buckets, m_config, now, pending>>
    /\ UNCHANGED <<idCalc, rpcVars, crashed, loopVars>>

\* The peers offered to addPeer: one more than a bucket holds.
LockPeerArgs ==
    {PeerInfo(ArgAddress, ArgPort, 0, id, FALSE) : id \in ArgIds \ {SelfId}}

InitLock ==
    /\ DHT_DHT({[staleThreshold |-> 1, maxPeers |-> DefaultMaxSize + 1, k |-> 1]})
    /\ idCalc = NoCalc
    /\ KademliaRPC_KademliaRPC
    /\ crashed = FALSE

NextLock ==
    \/ \E t \in Threads : DHT_addPeer_check_shared(t)
    \/ \E t \in Threads : RoutingTable_addPeer_lock(t)
    \/ \E t \in Threads, peer \in LockPeerArgs : RoutingTable_addPeer_locked(t, peer)
    \/ RoutingTable_refreshBuckets_lock
    \/ RoutingTable_refreshBuckets_locked
    \/ \E t \in Threads : RoutingTable_read_lock(t)
    \/ \E t \in Threads : RoutingTable_read_unlock(t)
    \/ Tick
    \/ \E i \in 1..MaxProbes, connected \in BOOLEAN, ub \in {"clobbered", "crash"} :
           KBucket_pingPeer_handler(i, connected, ub)

SpecLock == InitLock /\ [][NextLock]_vars

(***************************************************************************)
(* DHT::backgroundRefresh on m_refreshThread, and DHT::~DHT.               *)
(***************************************************************************)
\* The test after the sleep that never sees the stop.
breakAfterSleep_never(stop) == FALSE

\* if (stopToken.stop_requested()) break;
breakAfterSleep(stop) == stop

\* while (!stopToken.stop_requested())
backgroundRefresh_while ==
    /\ ~crashed
    /\ m_refreshThread.pc = "while"
    /\ m_refreshThread' =
           [m_refreshThread EXCEPT
               !.pc = IF stop_requested THEN "exit" ELSE "sleep"]
    /\ UNCHANGED <<m_buckets, m_config, now, pc, last, stop_requested, dtor,
                   pending, m_mutex, idCalc, rpcVars, crashed>>

\* std::this_thread::sleep_for(m_config.refreshInterval) returns.  The
\* step records whether the stop had been requested by then, and counts
\* the sleeps that end after the request.
backgroundRefresh_sleep_for ==
    /\ ~crashed
    /\ m_refreshThread.pc = "sleep"
    /\ m_refreshThread' =
           [pc |-> "woke",
            stopAtWake |-> stop_requested,
            wakes |-> IF stop_requested THEN m_refreshThread.wakes + 1
                      ELSE m_refreshThread.wakes]
    /\ UNCHANGED <<m_buckets, m_config, now, pc, last, stop_requested, dtor,
                   pending, m_mutex, idCalc, rpcVars, crashed>>

\* The test of the stop token after the sleep.
backgroundRefresh_break ==
    /\ ~crashed
    /\ m_refreshThread.pc = "woke"
    /\ m_refreshThread' =
           [m_refreshThread EXCEPT
               !.pc = IF breakAfterSleep(stop_requested) THEN "exit"
                      ELSE "refresh"]
    /\ UNCHANGED <<m_buckets, m_config, now, pc, last, stop_requested, dtor,
                   pending, m_mutex, idCalc, rpcVars, crashed>>

\* m_routingTable.refreshBuckets(m_config.staleThreshold)
backgroundRefresh_refreshBuckets ==
    /\ ~crashed
    /\ m_refreshThread.pc = "refresh"
    /\ m_buckets' = refreshBuckets(m_buckets, now, m_config.staleThreshold)
    /\ last' = Done("refresh", DefaultPeer, "void", getPeerCount(m_buckets))
    /\ m_refreshThread' = [m_refreshThread EXCEPT !.pc = "while"]
    /\ UNCHANGED <<m_config, now, pc, stop_requested, dtor, pending, m_mutex, idCalc,
                   rpcVars, crashed>>

backgroundRefresh ==
    \/ backgroundRefresh_while
    \/ backgroundRefresh_sleep_for
    \/ backgroundRefresh_break
    \/ backgroundRefresh_refreshBuckets

\* ~DHT: m_refreshThread.request_stop()
DHT_dtor_request_stop ==
    /\ ~crashed
    /\ dtor = "alive"
    /\ \A t \in Threads : pc[t] = "idle"
    /\ stop_requested' = TRUE
    /\ dtor' = "join"
    /\ UNCHANGED <<m_buckets, m_config, now, pc, last, m_refreshThread,
                   pending, m_mutex, idCalc, rpcVars, crashed>>

\* ~DHT: m_refreshThread.join() returns once backgroundRefresh has
\* returned.
DHT_dtor_join ==
    /\ ~crashed
    /\ dtor = "join"
    /\ m_refreshThread.pc = "exit"
    /\ dtor' = "destroyed"
    /\ UNCHANGED <<m_buckets, m_config, now, pc, last, m_refreshThread,
                   stop_requested, pending, m_mutex, idCalc, rpcVars, crashed>>

InitRefresh ==
    /\ DHT_DHT({[staleThreshold |-> 1, maxPeers |-> DefaultMaxSize + 1, k |-> 1]})
    /\ idCalc = NoCalc
    /\ KademliaRPC_KademliaRPC
    /\ crashed = FALSE

\* The application calls the DHT until it destroys it.
NextRefresh ==
    \/ dtor = "alive" /\ \E t \in RpcThreads : DHT_addPeer_check(t)
    \/ dtor = "alive"
           /\ \E t \in RpcThreads, peer \in RpcPeerArgs : DHT_addPeer_insert(t, peer)
    \/ Tick
    \/ backgroundRefresh
    \/ DHT_dtor_request_stop
    \/ DHT_dtor_join

\* The scheduler runs m_refreshThread and the destroying thread: a sleep
\* ends, and a thread that can take a step takes it.
SpecRefresh ==
    /\ InitRefresh
    /\ [][NextRefresh]_vars
    /\ WF_vars(backgroundRefresh)
    /\ WF_vars(DHT_dtor_join)

(***************************************************************************)
(* Properties.                                                             *)
(***************************************************************************)
\* Every peer stored in the table.
StoredPeers ==
    UNION {{m_buckets[b][i] : i \in 1..Len(m_buckets[b])} : b \in BucketIndices}

\* The spec's "not valid": empty address, or port 0, or all-zero nodeId.
NotValid(peer) == peer.ipAddress = "" \/ peer.port = 0 \/ peer.nodeId = zero

AddSucceeded == last.op = "addPeer" /\ last.result = "Success"

\* C1: whenever addPeer(p) returns success, an immediately following
\* findPeer(p.nodeId) returns a peer with the nodeId, address and port of p,
\* also when p's bucket was already full.
C1_AddThenFind ==
    AddSucceeded =>
        LET found == findPeer(m_buckets, last.peer.nodeId)
        IN  /\ found # <<>>
            /\ found[1].nodeId = last.peer.nodeId
            /\ found[1].ipAddress = last.peer.ipAddress
            /\ found[1].port = last.peer.port

\* C2: under every interleaving of concurrent addPeer calls the global
\* peer count never exceeds maxPeers.
C2_GlobalLimit == getPeerCount(m_buckets) <= m_config.maxPeers

\* C3: for a DHT constructed with Config.k = K, every bucket holds at most
\* K peers.
C3_BucketBound == \A b \in BucketIndices : Len(m_buckets[b]) <= m_config.k

\* C4: no bucket ever contains a peer whose nodeId equals selfId.
C4_NoSelf ==
    \A b \in BucketIndices : \A i \in 1..Len(m_buckets[b]) :
        m_buckets[b][i].nodeId # SelfId

\* C5: addPeer called when peerCount() >= maxPeers returns
\* PeerLimitExceeded and leaves the routing table unchanged, whatever the
\* peer is: a step that returns PeerLimitExceeded started at the limit and
\* changed no bucket, and at the limit no call passes the limit test.
C5_LimitExceeded ==
    [][/\ (last'.op = "addPeer" /\ last'.result = "PeerLimitExceeded") =>
            /\ getPeerCount(m_buckets) >= m_config.maxPeers
            /\ m_buckets' = m_buckets
       /\ getPeerCount(m_buckets) >= m_config.maxPeers => last'.op # "check"
      ]_vars

C5_Witness ==
    /\ last.op = "addPeer"
    /\ last.result = "PeerLimitExceeded"
    /\ getPeerCount(m_buckets) >= m_config.maxPeers
    /\ ~NotValid(last.peer)
    /\ findPeer(m_buckets, last.peer.nodeId) # <<>>

\* C6, as claimed: in every state, also at the peer limit, addPeer of a
\* peer that is not valid returns InvalidPeer and leaves the table
\* unchanged.
C6_InvalidAlways ==
    [][(last'.op = "addPeer" /\ NotValid(last'.peer)) =>
            /\ last'.result = "InvalidPeer"
            /\ m_buckets' = m_buckets
      ]_vars

\* C6, amended: addPeer of a peer that is not valid leaves the table
\* unchanged; it returns InvalidPeer when its limit test passed, and
\* PeerLimitExceeded when peerCount() >= maxPeers at the limit test.
C6_InvalidBelowLimit ==
    [][(last'.op = "addPeer" /\ NotValid(last'.peer)) =>
            /\ m_buckets' = m_buckets
            /\ \/ /\ last'.result = "InvalidPeer"
                  /\ \E t \in Threads : pc[t] = "checked" /\ pc'[t] = "idle"
               \/ /\ last'.result = "PeerLimitExceeded"
                  /\ getPeerCount(m_buckets) >= m_config.maxPeers
                  /\ pc' = pc
      ]_vars

C6_Witness ==
    /\ last.op = "addPeer"
    /\ NotValid(last.peer)
    /\ last.result = "InvalidPeer"
    /\ getPeerCount(m_buckets) > 0

\* The values of k findClosestPeers is asked for.
ArgK == 1..(DefaultMaxSize + 1)

\* C7: for every target and every k >= 1, findClosestPeers(target, k)
\* returns at most k peers, all stored in the table, in non-decreasing
\* order of the XOR distance to the target read as an unsigned big-endian
\* number, and no nodeId twice.
C7_FindClosest ==
    LET stored == StoredPeers
    IN  \A target \in NodeIds : \A k \in ArgK :
        LET r == findClosestPeers(m_buckets, target, k)
            n == Len(r)
            d == [i \in 1..n |-> Value(distanceTo(r[i].nodeId, target))]
        IN  /\ n <= k
            /\ \A i \in 1..n : r[i] \in stored
            /\ \A i \in 1..n : \A j \in (i + 1)..n :
                   /\ d[i] <= d[j]
                   /\ r[i].nodeId # r[j].nodeId

C7_Witness ==
    \E target \in NodeIds : \E k \in ArgK :
        LET r == findClosestPeers(m_buckets, target, k)
        IN  /\ k >= 2
            /\ Len(r) = k
            /\ getPeerCount(m_buckets) > k
            /\ logDistance(SelfId, r[1].nodeId) # logDistance(SelfId, r[2].nodeId)

\* C8: a peer added with a lastSeen older than now by at least
\* staleThreshold is gone after a refresh() called right after the
\* addPeer.
C8_StaleArgRemoved ==
    [][(/\ AddSucceeded
        /\ now - last.peer.lastSeen >= m_config.staleThreshold
        /\ last'.op = "refresh") =>
            findPeer(m_buckets', last.peer.nodeId) = <<>>
      ]_vars

C10_RefreshZero ==
    (last.op = "refresh" /\ m_config.staleThreshold = 0) =>
        /\ getPeerCount(m_buckets) = 0
        /\ \A b \in BucketIndices : m_buckets[b] = <<>>

C10_Witness ==
    /\ last.op = "refresh"
    /\ m_config.staleThreshold = 0
    /\ last.count >= 2
    /\ getPeerCount(m_buckets) = 0

\* C11: getPeer(n) returns a peer exactly when a peer with nodeId n is
\* stored somewhere in the table, the peer it returns is a stored peer with
\* nodeId n, and it returns nothing for the all-zero nodeId.
C11_GetPeer ==
    \A n \in NodeIds :
        LET found == DHT_getPeer(n)
        IN  /\ found # <<>> <=> \E p \in StoredPeers : p.nodeId = n
            /\ found # <<>> => (found[1].nodeId = n /\ found[1] \in StoredPeers)
            /\ n = zero => found = <<>>

\* A refresh removed a peer and kept another: the kept one is found, and
\* fewer identifiers are found than peers were stored before.
C11_Witness ==
    /\ last.op = "refresh"
    /\ getPeerCount(m_buckets) > 0
    /\ last.count > getPeerCount(m_buckets)
    /\ Cardinality({n \in NodeIds : DHT_getPeer(n) # <<>>}) < last.count
    /\ \E p \in StoredPeers :
           logDistance(SelfId, p.nodeId) # 0 /\ DHT_getPeer(p.nodeId) = <<p>>

\* The bit of an identifier's big-endian value at index k (0 = least
\* significant).
BitOf(id, k) == (Value(id) \div Pow2(k)) % 2

\* C12: logDistance(a, b) is the index of the most significant bit in
\* which a and b differ, read as big-endian numbers; it is 0 when a = b,
\* lies in 0 .. NumBuckets - 1, and for a = [1,0,...], b = [2,0,...] it is
\* (NODE_ID_LEN - 1) * ByteBits + 1 (153 at 20 bytes of 8 bits).
C12_LogDistance ==
    idCalc.called =>
        LET a == idCalc.a
            b == idCalc.b
            r == idCalc.logDistance
            differ == {k \in 0..(NumBuckets - 1) : BitOf(a, k) # BitOf(b, k)}
        IN  /\ r \in 0..(NumBuckets - 1)
            /\ a = b => r = 0
            /\ a # b => (r \in differ /\ \A k \in differ : k <= r)
            /\ (/\ a = [i \in 1..NODE_ID_LEN |-> IF i = 1 THEN 1 ELSE 0]
                /\ b = [i \in 1..NODE_ID_LEN |-> IF i = 1 THEN 2 ELSE 0])
                   => r = (NODE_ID_LEN - 1) * ByteBits + 1

C12_Witness ==
    /\ idCalc.called
    /\ idCalc.a = [i \in 1..NODE_ID_LEN |-> IF i = 1 THEN 1 ELSE 0]
    /\ idCalc.b = [i \in 1..NODE_ID_LEN |-> IF i = 1 THEN 2 ELSE 0]
    /\ idCalc.logDistance = (NODE_ID_LEN - 1) * ByteBits + 1

\* The last run of the receive handler handed a message to processMessage.
Dispatched == rx.msg # << >>

\* The last run of the receive handler was for a datagram made from a
\* message, delivered without error.
WellFormed == rx.sentMsg # << >> /\ ~rx.error

\* C13: parsing the serialization sendMessage produced for a message m
\* yields a message equal to m in all fields, lastSeen and isExpired of
\* the closestNodes included.
C13_RoundTrip ==
    (WellFormed /\ rx.ub = "intact") =>
        /\ Dispatched
        /\ rx.msg[1] = rx.sentMsg[1]

\* C14: for an inbound PING from sender s the endpoint sends exactly one
\* reply, of type PING, with sender = the local node's own nodeId and
\* target = s.
C14_PingReply ==
    (Dispatched /\ rx.msg[1].type = PING) =>
        /\ Len(sent) = 1
        /\ sent[1].msg.type = PING
        /\ sent[1].msg.sender = SelfId
        /\ sent[1].msg.target = rx.msg[1].sender

\* The receive handler ran in this step and handed a message of the given
\* type to processMessage.
DispatchedNow(type) ==
    /\ rx' # rx
    /\ rx'.msg # << >>
    /\ rx'.msg[1].type = type

\* C15: for an inbound FIND_VALUE with target t, if t is a key of the
\* local store the reply is value-bearing with the stored value (also an
\* empty one) and has no closestNodes; otherwise it has closestNodes =
\* findClosest(t, K) and no value: the transmitted reply of a hit always
\* differs from that of a miss.
C15_FindValue ==
    [][DispatchedNow(FIND_VALUE) =>
        /\ Len(sent') = 1
        /\ sent'[1].tx = "intact" =>
            LET t == rx'.msg[1].target
                reply == sent'[1].msg
                obj == sent'[1].wire[1]
            IN  IF t \in DOMAIN m_localStore
                THEN /\ contains(obj, "value")
                     /\ at(obj, "value") = m_localStore[t]
                     /\ ~contains(obj, "closestNodes")
                ELSE /\ reply.closestNodes
                            = findClosestPeers(m_buckets, t, m_config.k)
                     /\ reply.value = ""
                     /\ ~contains(obj, "value")
      ]_vars

C17_SenderAdded ==
    [][(/\ rx' # rx
        /\ rx'.msg # << >>
        /\ rx'.msg[1].sender # zero
        /\ Len(m_buckets[logDistance(SelfId, rx'.msg[1].sender)]) < DefaultMaxSize) =>
           /\ findPeer(m_buckets', rx'.msg[1].sender) # << >>
           /\ findPeer(m_buckets', rx'.msg[1].sender)[1].lastSeen = now
      ]_vars

\* The receive handler ran in this step.
Received == rx' # rx \/ crashed' # crashed

\* C18: after any inbound datagram the endpoint re-arms its receive and
\* the process keeps running; a well-formed message is handed to
\* processMessage; a malformed one or a receive error causes no dispatch,
\* no reply and no change to the local store or the routing table.
C18_ReceiveLoop ==
    [][Received =>
          /\ rx'.armed
          /\ ~crashed'
          /\ (rx'.sentMsg # << >> /\ ~rx'.error) =>
                (rx'.msg # << >> /\ rx'.msg[1] = parseMessage(rx'.datagram[1])[1])
          /\ (rx'.sentMsg = << >> \/ rx'.error) =>
                /\ rx'.msg = << >>
                /\ sent' = << >>
                /\ m_localStore' = m_localStore
                /\ m_buckets' = m_buckets
      ]_vars

\* C19: once stop is requested the loop terminates and the join returns;
\* at most one sleep ends after the request; and no refresh is started
\* after a wake at which the stop had been requested.
C19_StopPrompt ==
    /\ stop_requested ~> (m_refreshThread.pc = "exit" /\ dtor = "destroyed")
    /\ [](m_refreshThread.wakes <= 1)
    /\ [](m_refreshThread.pc = "refresh" => ~m_refreshThread.stopAtWake)

\* The stop was requested during a sleep that followed a refresh of a
\* non-empty table; the loop woke once, ended, and the join returned.
C19_Witness ==
    /\ dtor = "destroyed"
    /\ m_refreshThread.pc = "exit"
    /\ m_refreshThread.wakes = 1
    /\ m_refreshThread.stopAtWake
    /\ last.op = "refresh"
    /\ last.count > 0

\* C20: each stored peer with nodeId n sits in buckets[logDistance(self, n)]
\* and no nodeId occurs at two positions of the table, after any sequence
\* of addPeer, refresh and probe completions.
C20_OnePlace ==
    \A b \in BucketIndices : \A i \in 1..Len(m_buckets[b]) :
        /\ logDistance(SelfId, m_buckets[b][i].nodeId) = b
        /\ \A c \in BucketIndices : \A j \in 1..Len(m_buckets[c]) :
               m_buckets[c][j].nodeId = m_buckets[b][i].nodeId
                   => (c = b /\ j = i)

\* C21: in every state each bucket has its peers in non-decreasing order
\* of lastSeen (least recently seen first), and right after a successful
\* addPeer of a peer whose nodeId is in the table that peer is the last
\* element of its bucket.
C21_LruOrder ==
    /\ \A b \in BucketIndices : \A i \in 1..Len(m_buckets[b]) :
           \A j \in (i + 1)..Len(m_buckets[b]) :
               m_buckets[b][i].lastSeen <= m_buckets[b][j].lastSeen
    /\ AddSucceeded =>
           LET peers == m_buckets[logDistance(SelfId, last.peer.nodeId)]
           IN  find_if(peers, last.peer.nodeId) # 0
                   => peers[Len(peers)].nodeId = last.peer.nodeId

\* The i-th queued completion handler ran in this step.
Ran(i) ==
    /\ i \in 1..Len(pending)
    /\ last'.op \in {"pingPeer_connected", "pingPeer_failed"}
    /\ pending' = [j \in 1..(Len(pending) - 1) |->
                      IF j < i THEN pending[j] ELSE pending[j + 1]]

\* The bucket of a probe is as it was when the probe was issued: full, the
\* probed peer at the remembered position, the incoming peer not in it.
Unmodified(p) ==
    LET peers == m_buckets[p.bucket]
    IN  /\ Len(peers) = DefaultMaxSize
        /\ p.oldestIt <= Len(peers)
        /\ peers[p.oldestIt] = p.probed
        /\ find_if(peers, p.peer.nodeId) = 0

\* C22: when the probe issued by an add on a full bucket completes and the
\* bucket is as it was, then on failure (the connect failed) the probed peer
\* is no longer in the bucket and the incoming peer is its last element,
\* and on success (the probed peer accepted the connection) the bucket is
\* unchanged, the incoming peer being discarded.
C22_ProbeOutcome ==
    [][\A i \in 1..MaxProbes :
          (Ran(i) /\ Unmodified(pending[i])) =>
              LET p == pending[i]
                  after == m_buckets'[p.bucket]
              IN  IF last'.op = "pingPeer_failed"
                  THEN /\ find_if(after, p.probed.nodeId) = 0
                       /\ Len(after) = DefaultMaxSize
                       /\ after[Len(after)] = p.peer
                  ELSE m_buckets' = m_buckets
      ]_vars

\* The remembered position of a probe no longer holds the probed peer: it
\* is past the end of the bucket, or holds a peer with another nodeId.
Stale(p) ==
    LET peers == m_buckets[p.bucket]
    IN  \/ p.oldestIt > Len(peers)
        \/ peers[p.oldestIt].nodeId # p.probed.nodeId

\* C23: a probe completion that arrives when the remembered position no
\* longer holds the probed peer changes no bucket and does not fault.
C23_StaleDiscarded ==
    [][\A i \in 1..MaxProbes :
          (Ran(i) /\ Stale(pending[i])) =>
              /\ m_buckets' = m_buckets
              /\ crashed' = crashed
      ]_vars

\* C24: every step that changes a bucket's peer list is taken while the
\* writer lock of the routing table is held exclusively and no reader
\* holds the shared lock.
C24_WriterLock ==
    [][m_buckets' # m_buckets =>
          /\ m_mutex.writer # "none"
          /\ m_mutex.readers = {}
      ]_vars

\* An iterative operation of the given kind was called in this step.
LookupNow(op) == lookup' # lookup /\ lookup'.op = op

\* The messages of the given type and target this step sent to the peer.
SentTo(peer, type, target) ==
    {i \in 1..Len(sent') :
        /\ sent'[i].to = endpointOf(peer)
        /\ sent'[i].msg.type = type
        /\ sent'[i].msg.target = target}

\* C25: an iterative FIND_VALUE lookup for a key returns the value when a
\* peer it queried holds one; it returns empty only when every peer among
\* the first k of the shortlist was sent a query; and no peer is sent
\* more than one query.
C25_IterativeFindValue ==
    [][LookupNow("iterativeFindValue") =>
          LET key == lookup'.key
              shortlist == findClosestPeers(m_buckets, key, m_config.k)
              queried == {i \in 1..Len(shortlist) :
                            SentTo(shortlist[i], FIND_VALUE, key) # {}}
          IN  /\ (\E i \in queried : shortlist[i].nodeId \in lookup'.holders)
                     => lookup'.result # << >>
              /\ lookup'.result = << >> => queried = 1..Len(shortlist)
              /\ \A i \in 1..Len(shortlist) :
                     Cardinality(SentTo(shortlist[i], FIND_VALUE, key)) <= 1
      ]_vars

\* C26: iterativeStore(key, value) sends one STORE with target = key,
\* value = value and sender = self to each of the k peers closest to key
\* and nothing else, and at least one STORE when the table is not empty.
C26_IterativeStore ==
    [][LookupNow("iterativeStore") =>
          LET key == lookup'.key
              closest == findClosestPeers(m_buckets, key, m_config.k)
          IN  /\ Len(sent') = Len(closest)
              /\ \A i \in 1..Len(closest) :
                     /\ Cardinality(SentTo(closest[i], STORE, key)) = 1
                     /\ \A j \in SentTo(closest[i], STORE, key) :
                            sent'[j].msg = RPCMessage(STORE, SelfId, key,
                                                      lookup'.value, << >>)
              /\ getPeerCount(m_buckets) > 0 => Len(sent') >= 1
      ]_vars

\* C27: for every target and k, findClosestPeers(target, k) returns
\* min(k, peerCount()) peers, and no stored peer absent from the result is
\* strictly closer to the target than a peer of the result.
C27_GloballyClosest ==
    \A target \in NodeIds : \A k \in ArgK :
        LET r == findClosestPeers(m_buckets, target, k)
        IN  /\ Len(r) = Min(k, getPeerCount(m_buckets))
            /\ \A p \in StoredPeers :
                   (\A i \in 1..Len(r) : r[i] # p) =>
                       \A i \in 1..Len(r) :
                           ~(Value(distanceTo(p.nodeId, target))
                                 < Value(distanceTo(r[i].nodeId, target)))

=============================================================================
